---- MODULE Spec2Model ----
(***************************************************************************)
(* Model of the PDF form filler (g-guthrie/autograph-donut-scribe).        *)
(*                                                                         *)
(* Two processor components are modelled, selected by `variant`:           *)
(*   "mutation" : PDFProcessor.tsx (useMutation) + the pdfService library  *)
(*                (firstPageToJpeg, callDonut, fillTemplate);              *)
(*   "inline"   : the PDFProcessor that carries convertPdfToImage,          *)
(*                detectFields and generateFilledPDF inside the component. *)
(*                                                                         *)
(* Strings the code inspects character by character (field labels) are     *)
(* sequences of one-character strings; strings the code only tests for     *)
(* emptiness or copies (personal data, tokens) are TLA+ strings.           *)
(* Confidences are hundredths (0.9 is 90).  An optional JSON member is a   *)
(* sequence of length 0 (absent) or 1 (present).                           *)
(***************************************************************************)
EXTENDS Integers, Sequences, FiniteSets, TLC

\* ------------------------------------------------------------------ bounds
\* longest upstream response (array length / number of keys) that is explored
MaxEntries == 2
\* number of invocations started on one processor that is explored
MaxInvocations == 2
\* largest value of Date.now() that is explored
MaxClock == 2

\* ------------------------------------------------------- optional members
None == <<>>
Some(v) == <<v>>
IsSome(o) == Len(o) = 1
Get(o) == o[1]

\* -------------------------------------------------------------- characters
UpperChars == <<"A", "B", "C", "D", "E", "F", "G", "H", "I", "J", "K", "L", "M", "N", "O", "P", "Q", "R", "S", "T", "U", "V", "W", "X", "Y", "Z">>
LowerChars == <<"a", "b", "c", "d", "e", "f", "g", "h", "i", "j", "k", "l", "m", "n", "o", "p", "q", "r", "s", "t", "u", "v", "w", "x", "y", "z">>

toLowerChar(c) ==
  IF \E i \in 1..Len(UpperChars) : UpperChars[i] = c
    THEN LowerChars[CHOOSE i \in 1..Len(UpperChars) : UpperChars[i] = c]
    ELSE c

\* String.prototype.toLowerCase
toLowerCase(s) == [i \in 1..Len(s) |-> toLowerChar(s[i])]

\* ------------------------------------------- the labels of the switch cases
S_first_name == <<"f", "i", "r", "s", "t", "_", "n", "a", "m", "e">>
S_firstname == <<"f", "i", "r", "s", "t", "n", "a", "m", "e">>
S_middle_name == <<"m", "i", "d", "d", "l", "e", "_", "n", "a", "m", "e">>
S_middlename == <<"m", "i", "d", "d", "l", "e", "n", "a", "m", "e">>
S_last_name == <<"l", "a", "s", "t", "_", "n", "a", "m", "e">>
S_lastname == <<"l", "a", "s", "t", "n", "a", "m", "e">>
S_gender == <<"g", "e", "n", "d", "e", "r">>
S_marital_status == <<"m", "a", "r", "i", "t", "a", "l", "_", "s", "t", "a", "t", "u", "s">>
S_maritalstatus == <<"m", "a", "r", "i", "t", "a", "l", "s", "t", "a", "t", "u", "s">>
S_phone == <<"p", "h", "o", "n", "e">>
S_cell_phone == <<"c", "e", "l", "l", "_", "p", "h", "o", "n", "e">>
S_cellphone == <<"c", "e", "l", "l", "p", "h", "o", "n", "e">>
S_work_phone == <<"w", "o", "r", "k", "_", "p", "h", "o", "n", "e">>
S_workphone == <<"w", "o", "r", "k", "p", "h", "o", "n", "e">>
S_address == <<"a", "d", "d", "r", "e", "s", "s">>
S_home_address == <<"h", "o", "m", "e", "_", "a", "d", "d", "r", "e", "s", "s">>
S_homeaddress == <<"h", "o", "m", "e", "a", "d", "d", "r", "e", "s", "s">>
S_state == <<"s", "t", "a", "t", "e">>
S_zip == <<"z", "i", "p">>
S_zipcode == <<"z", "i", "p", "c", "o", "d", "e">>
S_zip_code == <<"z", "i", "p", "_", "c", "o", "d", "e">>
S_date == <<"d", "a", "t", "e">>
S_signature == <<"s", "i", "g", "n", "a", "t", "u", "r", "e">>

\* ------------------------------------------------------ callDonut: parsing
\* item.confidence || 0.9   (hundredths)
DefaultConfidence == 90

\* JavaScript truthiness of an optional string / optional number member
TruthyString(o) == IsSome(o) /\ Get(o) # <<>>
TruthyNumber(o) == IsSome(o) /\ Get(o) # 0

\* `x.confidence || 0.9`
ConfidenceOrDefault(o) == IF TruthyNumber(o) THEN Get(o) ELSE DefaultConfidence

\* one DetectedField as pushed by the parsing loops (value: '')
MakeField(label, bbox, confidence) ==
  [field |-> label, value |-> "", bbox |-> bbox, confidence |-> confidence]

\* body of result.forEach(item => ...) for the array shape
ParseArrayItemNoBboxTest(item) ==
  IF TruthyString(item.word)
    THEN <<MakeField(toLowerCase(Get(item.word)),
                     IF IsSome(item.bbox) THEN Get(item.bbox) ELSE <<0, 0, 0, 0>>,
                     ConfidenceOrDefault(item.confidence))>>
    ELSE <<>>
ParseArrayItem(item) ==
  IF TruthyString(item.word) /\ IsSome(item.bbox)
    THEN <<MakeField(toLowerCase(Get(item.word)), Get(item.bbox),
                     ConfidenceOrDefault(item.confidence))>>
    ELSE <<>>

ParseObjectEntryKeepCase(item) ==
  IF IsSome(item.bbox)
    THEN <<MakeField(Get(item.word), Get(item.bbox),
                     ConfidenceOrDefault(item.confidence))>>
    ELSE <<>>
\* body of Object.keys(result).forEach(key => ...) for the keyed shape; a key
\* whose value is null is an entry with neither bbox nor confidence
ParseObjectEntry(item) ==
  IF IsSome(item.bbox)
    THEN <<MakeField(toLowerCase(Get(item.word)), Get(item.bbox),
                     ConfidenceOrDefault(item.confidence))>>
    ELSE <<>>

\* result.forEach(...) over the array shape
RECURSIVE ParseArray(_)
ParseArray(items) ==
  IF items = <<>> THEN <<>> ELSE ParseArrayItem(Head(items)) \o ParseArray(Tail(items))

\* Object.keys(result).forEach(...) over the keyed shape
RECURSIVE ParseObject(_)
ParseObject(items) ==
  IF items = <<>> THEN <<>> ELSE ParseObjectEntry(Head(items)) \o ParseObject(Tail(items))

\* the two parsing branches, before the fallback is considered
ParseResult(result) ==
  IF result.shape = "array" /\ Len(result.items) > 0
    THEN ParseArray(result.items)
  ELSE IF result.shape \in {"array", "object"}
    THEN ParseObject(result.items)
  ELSE <<>>

\* the fallback simulation list
basicFields ==
  << MakeField(S_first_name, <<100, 150, 200, 170>>, DefaultConfidence),
     MakeField(S_last_name,  <<250, 150, 350, 170>>, DefaultConfidence),
     MakeField(S_phone,      <<100, 200, 250, 220>>, DefaultConfidence),
     MakeField(S_address,    <<100, 250, 400, 270>>, DefaultConfidence),
     MakeField(S_signature,  <<100, 400, 250, 450>>, DefaultConfidence) >>

WithFallbackAlways(parsed) == parsed \o basicFields
\* if (detectedFields.length === 0) detectedFields.push(...basicFields)
WithFallback(parsed) == IF Len(parsed) = 0 THEN basicFields ELSE parsed

DetectedFieldsOfNoFallback(result) == ParseResult(result)
\* what callDonut / detectFields return for a 2xx response with JSON `result`
DetectedFieldsOf(result) == WithFallback(ParseResult(result))

\* ------------------------------------------------ nullable UI string state
Null == "null"

\* ------------------------------------------------------------ the documents
\* "form.pdf"   a one-page Letter PDF that pdf.js renders and pdf-lib loads
\* "locked.pdf" a PDF that pdf.js renders but PDFDocument.load rejects
\* "broken.pdf" a file of type application/pdf whose bytes are not a PDF
\* "notes.txt"  a file of another type
PdfFiles == {"form.pdf", "locked.pdf", "broken.pdf"}
Files == PdfFiles \cup {"notes.txt"}
FileType(f) == IF f \in PdfFiles THEN "application/pdf" ELSE "text/plain"
\* pdfjsLib.getDocument(...).promise / pdf.getPage(1) resolve
Renders(f) == f \in {"form.pdf", "locked.pdf"}
\* PDFDocument.load(...) resolves
Loads(f) == f = "form.pdf"
\* page.getSize() of the first page, in points
PageSize(f) == [width |-> 612, height |-> 792]
\* page.getViewport({ scale: 2 })
RasterScale == 2

\* ------------------------------------------------------------- signatures
ValidSignature == "data:image/png;base64,iVBORw0KGgo"
CorruptSignature == "data:image/png;base64,AAAA"
\* pdfDoc.embedPng(bytes) resolves
PngEmbeds(sig) == sig = ValidSignature

\* --------------------------------------------------------- personal records
INITIAL_FORM_DATA ==
  [firstName |-> "", middleName |-> "", lastName |-> "", gender |-> "",
   maritalStatus |-> "", cellPhone |-> "", workPhone |-> "",
   homeAddress |-> "", state |-> "", zipCode |-> ""]
JaneRecord ==
  [INITIAL_FORM_DATA EXCEPT !.firstName = "Jane", !.lastName = "Doe",
                            !.cellPhone = "555-1212", !.homeAddress = "1 Main St"]
AnnRecord ==
  [firstName |-> "Ann", middleName |-> "B", lastName |-> "Lee", gender |-> "F",
   maritalStatus |-> "single", cellPhone |-> "555-0000", workPhone |-> "555-0001",
   homeAddress |-> "2 Oak Ave", state |-> "TX", zipCode |-> "75001"]

\* new Date().toLocaleDateString() at the time of the call
Today == "11/5/2026"

\* ------------------------------------------------------------ fillTemplate
fontSize == 14

ValueToInsertPhoneFromWork(label, personalInfo) ==
  LET l == toLowerCase(label) IN
  CASE l \in {S_first_name, S_firstname} -> personalInfo.firstName
    [] l \in {S_last_name, S_lastname} -> personalInfo.lastName
    [] l \in {S_phone, S_work_phone, S_workphone} -> personalInfo.workPhone
    [] l \in {S_address, S_home_address, S_homeaddress} -> personalInfo.homeAddress
    [] OTHER -> ""
\* the switch (detectedField.field.toLowerCase()) of the fill loop, without
\* its 'signature' case
ValueToInsert(label, personalInfo) ==
  LET l == toLowerCase(label) IN
  CASE l \in {S_first_name, S_firstname} -> personalInfo.firstName
    [] l \in {S_middle_name, S_middlename} -> personalInfo.middleName
    [] l \in {S_last_name, S_lastname} -> personalInfo.lastName
    [] l = S_gender -> personalInfo.gender
    [] l \in {S_marital_status, S_maritalstatus} -> personalInfo.maritalStatus
    [] l \in {S_phone, S_cell_phone, S_cellphone} -> personalInfo.cellPhone
    [] l \in {S_work_phone, S_workphone} -> personalInfo.workPhone
    [] l \in {S_address, S_home_address, S_homeaddress} -> personalInfo.homeAddress
    [] l = S_state -> personalInfo.state
    [] l \in {S_zip, S_zipcode, S_zip_code} -> personalInfo.zipCode
    [] l = S_date -> Today
    [] OTHER -> ""

Min(a, b) == IF a < b THEN a ELSE b

ImageDrawUnclipped(f, height) ==
  [op |-> "image", field |-> f.field, bbox |-> f.bbox, text |-> "",
   x |-> f.bbox[1] + 5, y |-> height - f.bbox[4] - 5,
   width |-> f.bbox[3] - f.bbox[1] - 10,
   height |-> f.bbox[4] - f.bbox[2] - 10,
   size |-> 0, font |-> ""]
\* page.drawImage(png, {x, y, width, height}) for one signature field
ImageDraw(f, height) ==
  [op |-> "image", field |-> f.field, bbox |-> f.bbox, text |-> "",
   x |-> f.bbox[1] + 5, y |-> height - f.bbox[4] - 5,
   width |-> Min(f.bbox[3] - f.bbox[1] - 10, 150),
   height |-> Min(f.bbox[4] - f.bbox[2] - 10, 50),
   size |-> 0, font |-> ""]

\* page.drawText(valueToInsert, {x, y, size, font, color})
TextDraw(f, text, height, font) ==
  [op |-> "text", field |-> f.field, bbox |-> f.bbox, text |-> text,
   x |-> f.bbox[1] + 5, y |-> height - f.bbox[4] + 5,
   width |-> 0, height |-> 0, size |-> fontSize, font |-> font]

TruthyAlways(v) == TRUE
\* `if (valueToInsert)`: a string is truthy unless it is empty
Truthy(v) == v # ""

FieldDrawsSignatureUnconditional(f, personalInfo, sig, height, font) ==
  IF toLowerCase(f.field) = S_signature
    THEN <<ImageDraw(f, height)>>
    ELSE LET v == ValueToInsert(f.field, personalInfo) IN
         IF Truthy(v) THEN <<TextDraw(f, v, height, font)>> ELSE <<>>
\* one iteration of `for (const detectedField of fields)`
FieldDraws(f, personalInfo, sig, height, font) ==
  IF toLowerCase(f.field) = S_signature
    THEN IF sig # Null /\ PngEmbeds(sig) THEN <<ImageDraw(f, height)>> ELSE <<>>
    ELSE LET v == ValueToInsert(f.field, personalInfo) IN
         IF Truthy(v) THEN <<TextDraw(f, v, height, font)>> ELSE <<>>

\* the draw operations issued by the whole fill loop, in order
RECURSIVE fillTemplate(_, _, _, _, _)
fillTemplate(fields, personalInfo, sig, height, font) ==
  IF fields = <<>> THEN <<>>
  ELSE FieldDraws(Head(fields), personalInfo, sig, height, font)
       \o fillTemplate(Tail(fields), personalInfo, sig, height, font)

\* ---------------------------------------------------------------- scaleBox
\* The arithmetic of scaleBox is carried out over the rationals: a number is
\* a numerator over a positive denominator (rounding of doubles is left out).
Rat(n, d) == [num |-> n, den |-> d]
RatEq(a, b) == a.num * b.den = b.num * a.den
\* the sum of two numbers over the same denominator
RatAdd(a, b) == Rat(a.num + b.num, a.den)

scaleBoxNoFlip(box, imgW, imgH, pdfW, pdfH) ==
  << Rat(box[1] * pdfW, imgW),
     Rat(box[4] * pdfH, imgH),
     Rat((box[3] - box[1]) * pdfW, imgW),
     Rat((box[4] - box[2]) * pdfH, imgH) >>
\* scaleBox(box, imgW, imgH, pdfW, pdfH): [x, y, width, height] in page space
scaleBox(box, imgW, imgH, pdfW, pdfH) ==
  << Rat(box[1] * pdfW, imgW),
     Rat(pdfH * imgH - box[4] * pdfH, imgH),
     Rat((box[3] - box[1]) * pdfW, imgW),
     Rat((box[4] - box[2]) * pdfH, imgH) >>

\* ------------------------------------------------------ upstream responses
S_First_Name == <<"F", "i", "r", "s", "t", "_", "N", "a", "m", "e">>
S_first_space_name == <<"f", "i", "r", "s", "t", " ", "n", "a", "m", "e">>
S_FIRSTNAME == <<"F", "I", "R", "S", "T", "N", "A", "M", "E">>
S_Phone == <<"P", "h", "o", "n", "e">>
S_total == <<"t", "o", "t", "a", "l">>

Entry(word, bbox, confidence) == [word |-> word, bbox |-> bbox, confidence |-> confidence]

SeqsUpTo(S, n) == UNION {[1..k -> S] : k \in 0..n}

\* JSON.parse keeps one value per key: the keys of an object are distinct
DistinctWords(items) ==
  \A i, j \in 1..Len(items) : items[i].word = items[j].word => i = j

ArrayBodies(entries, n) == {[shape |-> "array", items |-> s] : s \in SeqsUpTo(entries, n)}
ObjectBodies(entries, n) ==
  {[shape |-> "object", items |-> s] :
     s \in {t \in SeqsUpTo({e \in entries : IsSome(e.word)}, n) : DistinctWords(t)}}
\* JSON null, a JSON scalar, and a body that is not JSON
NullBody == [shape |-> "null", items |-> <<>>]
ScalarBody == [shape |-> "scalar", items |-> <<>>]
InvalidJson == [shape |-> "invalid", items |-> <<>>]

\* entries the processors are driven with
PipelineEntries ==
  { Entry(Some(S_first_name), Some(<<100, 150, 200, 170>>), None),
    Entry(Some(S_signature), Some(<<100, 400, 250, 450>>), Some(80)),
    Entry(Some(S_Phone), Some(<<100, 200, 250, 220>>), Some(0)),
    Entry(Some(S_total), None, None) }
PipelineBodies ==
  ArrayBodies(PipelineEntries, MaxEntries) \cup ObjectBodies(PipelineEntries, MaxEntries)
    \cup {NullBody}

NetworkError == [kind |-> "network_error", status |-> 0, body |-> NullBody]
HttpResponse(status, body) == [kind |-> "http", status |-> status, body |-> body]
NoResponse == [kind |-> "none", status |-> 0, body |-> NullBody]
OkAnyStatus(res) == res.kind = "http"
\* res.ok
Ok(res) == res.kind = "http" /\ res.status \in 200..299

Responses ==
  {NetworkError} \cup {HttpResponse(st, NullBody) : st \in {401, 503}}
    \cup {HttpResponse(200, b) : b \in PipelineBodies \cup {InvalidJson}}

\* ------------------------------------------------------------- credentials
NoToken == <<>>
HfToken == <<"h", "f", "_", "x">>
OtherToken == <<"s", "k", "-", "x">>
Tokens == {NoToken, HfToken, OtherToken}

\* ------------------------------------------------------------------ errors
NoError == [kind |-> "none", status |-> 0]
Error(kind, status) == [kind |-> kind, status |-> status]

FontOutcomes == {"ok", "network_error", "http_error", "bad_bytes"}

\* ------------------------------------------------------------ localStorage
\* the PINs typed into the PIN input
Pins == {<<>>, <<"1", "2", "3">>, <<"1", "2", "3", "4">>,
         <<"1", "2", "3", "4", "5">>}
ProfileKeySharedByAllPins(p) == <<"p", "r", "o", "f", "i", "l", "e", "_">>
\* `profile_${pin}`
ProfileKey(p) == <<"p", "r", "o", "f", "i", "l", "e", "_">> \o p
ProfileKeys == {ProfileKey(p) : p \in Pins}
\* localStorage.getItem of a key that was never set
NoItem == <<>>
EmptyStore == [k \in ProfileKeys |-> NoItem]

\* ------------------------------------------------------------------- state
VARIABLES
  variant,           \* which PDFProcessor component this is
  formData,          \* prop: the personal record
  signatureDataUrl,  \* prop: the signature data URL or null
  hfToken,           \* prop (mutation) / component state (inline)
  pin,               \* FormProcessor: useState("") behind the PIN input
  store,             \* localStorage: the item stored under each profile key
  uploadedFile,      \* useState<File | null>
  processingResult,  \* useState<'complete' | 'incomplete' | null>
  downloadUrl,       \* downloadUrl / filledPdfUrl: the file the blob was made from
  isPending,         \* processPdf.isPending / isProcessing
  toast,             \* the last toast shown
  pc,                \* the await the invocation in flight is suspended at
  inv,               \* what the invocation in flight closed over
  invCount,          \* invocations started so far
  requests,          \* requests sent by the current invocation
  response,          \* what the detection request came back with
  detectedFields,    \* the list callDonut / detectFields returned
  customFont,        \* the font the fill loop draws with
  draws,             \* draw operations issued on the first page
  pageBoxes,         \* boxes returned by scaleBox
  fontResponse,      \* what the font request came back with
  lastError          \* the error the invocation ended with

vars == <<variant, formData, signatureDataUrl, hfToken, pin, store, uploadedFile,
          processingResult, downloadUrl, isPending, toast, pc, inv, invCount,
          requests, response, detectedFields, customFont, draws, pageBoxes,
          fontResponse, lastError>>

\* what the processor does not own: its props and the profile state
props == <<variant, formData, signatureDataUrl, hfToken, pin, store>>
ui == <<uploadedFile, processingResult, downloadUrl, isPending, toast>>
run == <<requests, response, detectedFields, customFont, draws, pageBoxes, fontResponse,
        lastError>>

NoInvocation ==
  [file |-> Null, formData |-> INITIAL_FORM_DATA, signatureDataUrl |-> Null,
   hfToken |-> NoToken]

Init ==
  /\ variant \in {"mutation", "inline", "simulated"}
  /\ formData \in {INITIAL_FORM_DATA, AnnRecord}
  /\ signatureDataUrl \in {Null, ValidSignature, CorruptSignature}
  /\ hfToken \in Tokens
  /\ pin = <<>>
  /\ store = EmptyStore
  /\ uploadedFile = Null
  /\ processingResult = Null
  /\ downloadUrl = Null
  /\ isPending = FALSE
  /\ toast = ""
  /\ pc = "idle"
  /\ inv = NoInvocation
  /\ invCount = 0
  /\ requests = <<>>
  /\ response = NoResponse
  /\ detectedFields = <<>>
  /\ customFont = ""
  /\ draws = <<>>
  /\ pageBoxes = <<>>
  /\ fontResponse = "none"
  /\ lastError = NoError

\* ---------------------------------------------------------------- actions
onDropKeepsResult(d) ==
  /\ IF d # Null /\ FileType(d) = "application/pdf"
       THEN /\ uploadedFile' = d
            /\ toast' = "PDF uploaded"
            /\ UNCHANGED <<processingResult, downloadUrl>>
       ELSE /\ toast' = "Please upload a valid PDF file"
            /\ UNCHANGED <<uploadedFile, processingResult, downloadUrl>>
  /\ UNCHANGED <<props, isPending, pc, inv, invCount, run>>
\* onDrop(acceptedFiles): d is acceptedFiles[0], or Null when the list is empty
onDrop(d) ==
  /\ IF d # Null /\ FileType(d) = "application/pdf"
       THEN /\ uploadedFile' = d
            /\ processingResult' = Null
            /\ downloadUrl' = Null
            /\ toast' = "PDF uploaded"
       ELSE /\ toast' = "Please upload a valid PDF file"
            /\ UNCHANGED <<uploadedFile, processingResult, downloadUrl>>
  /\ UNCHANGED <<props, isPending, pc, inv, invCount, run>>

\* the invocation ends in failure: onError of the mutation; the catch block of
\* processFormWithAI followed by the finally block of processForm
Fail(err) ==
  /\ processingResult' = "incomplete"
  /\ toast' = IF variant = "mutation" THEN "Processing failed"
                                      ELSE "Failed to process form with AI"
  /\ isPending' = FALSE
  /\ pc' = "idle"
  /\ lastError' = err
  /\ UNCHANGED <<uploadedFile, downloadUrl>>

\* the invocation ends in success: onSuccess of the mutation; setFilledPdfUrl
\* and setProcessingResult('complete') in processFormWithAI
Succeed(file) ==
  /\ processingResult' = "complete"
  /\ downloadUrl' = file
  /\ toast' = "PDF processed successfully!"
  /\ isPending' = FALSE
  /\ pc' = "idle"
  /\ lastError' = NoError
  /\ UNCHANGED uploadedFile

ProcessDisabledOnlyWithoutFile == uploadedFile = Null
\* the process button: disabled={!uploadedFile || isProcessing} /
\* disabled={!uploadedFile || processPdf.isPending}
ProcessDisabled == uploadedFile = Null \/ isPending

StartErrorNoTokenCheck ==
  IF signatureDataUrl = Null THEN "Please create a signature first" ELSE ""
\* the guards at the head of handleProcess / processForm that follow the
\* test of uploadedFile: the error they report, "" if they all pass (the
\* simulated processor has no token)
StartError ==
  IF signatureDataUrl = Null THEN "Please create a signature first"
  ELSE IF variant # "simulated" /\ hfToken = NoToken
    THEN "Please enter your Hugging Face API token first"
  ELSE ""

\* a click on the process button: handleProcess + processPdf.mutate (onMutate,
\* then the synchronous head of mutationFn); processForm in the inline and the
\* simulated component
handleProcess ==
  /\ ~ProcessDisabled
  /\ invCount < MaxInvocations
  /\ IF StartError # ""
       THEN /\ toast' = StartError
            /\ UNCHANGED <<uploadedFile, processingResult, downloadUrl, isPending,
                           pc, inv, invCount, run>>
       ELSE /\ isPending' = TRUE
            /\ pc' = IF variant = "simulated" THEN "timer" ELSE "raster"
            /\ inv' = [file |-> uploadedFile, formData |-> formData,
                       signatureDataUrl |-> signatureDataUrl, hfToken |-> hfToken]
            /\ invCount' = invCount + 1
            /\ requests' = <<>>
            /\ response' = NoResponse
            /\ detectedFields' = <<>>
            /\ customFont' = ""
            /\ draws' = <<>>
            /\ pageBoxes' = <<>>
            /\ fontResponse' = "none"
            /\ lastError' = NoError
            /\ IF variant = "mutation"
                 THEN /\ toast' = "Processing PDF with AI..."
                      /\ processingResult' = Null
                      /\ downloadUrl' = Null
                 ELSE UNCHANGED <<toast, processingResult, downloadUrl>>
            /\ UNCHANGED uploadedFile
  /\ UNCHANGED props

\* formData.firstName && formData.lastName && (formData.cellPhone ||
\* formData.workPhone) && formData.homeAddress && formData.state && formData.zipCode
hasBasicInfo(fd) ==
  /\ fd.firstName # "" /\ fd.lastName # ""
  /\ (fd.cellPhone # "" \/ fd.workPhone # "")
  /\ fd.homeAddress # "" /\ fd.state # "" /\ fd.zipCode # ""

\* simulated component: the 3 s timer of simulateFormProcessing fires; with
\* the basic information present generateFilledPDF paints the canvas and
\* waits for the signature image to load
simulateFormProcessing ==
  /\ pc = "timer"
  /\ IF hasBasicInfo(inv.formData)
       THEN /\ pc' = "image"
            /\ UNCHANGED <<ui, lastError>>
       ELSE /\ processingResult' = "incomplete"
            /\ toast' = "Insufficient information to fill the form completely"
            /\ isPending' = FALSE
            /\ pc' = "idle"
            /\ lastError' = NoError
            /\ UNCHANGED <<uploadedFile, downloadUrl>>
  /\ UNCHANGED <<props, inv, invCount, requests, response, detectedFields, customFont,
                 draws, pageBoxes, fontResponse>>

\* simulated component: img.onload of generateFilledPDF, which fires only if
\* the signature decodes (there is no onerror handler)
imageLoaded ==
  /\ pc = "image"
  /\ PngEmbeds(inv.signatureDataUrl)
  /\ Succeed(inv.file)
  /\ UNCHANGED <<props, inv, invCount, requests, response, detectedFields, customFont,
                 draws, pageBoxes, fontResponse>>

\* firstPageToJpeg / convertPdfToImage settles; on success the detection
\* request is sent (the fetch at the head of callDonut / detectFields)
firstPageToJpeg ==
  /\ pc = "raster"
  /\ IF Renders(inv.file)
       THEN /\ requests' = Append(requests, [url |-> "inference", token |-> inv.hfToken])
            /\ pc' = "detect"
            /\ UNCHANGED <<ui, lastError>>
       ELSE /\ Fail(Error("InvalidPDFException", 0))
            /\ UNCHANGED requests
  /\ UNCHANGED <<props, inv, invCount, response, detectedFields, customFont, draws,
                 pageBoxes, fontResponse>>

\* throw new Error(`HF error ${res.status}`) /
\* throw new Error(`Hugging Face API error: ${response.status} ...`)
UpstreamError(status) ==
  Error(IF variant = "mutation" THEN "HF error" ELSE "Hugging Face API error", status)

\* the caller's branch for an empty field list: the mutation throws "No form
\* fields could be detected"; processFormWithAI takes its else branch
NoUsableFields ==
  IF variant = "mutation"
    THEN Fail(Error("No form fields could be detected", 0))
    ELSE /\ processingResult' = "incomplete"
         /\ toast' = "Complex form detected or no fields found - cannot auto-fill"
         /\ isPending' = FALSE
         /\ pc' = "idle"
         /\ lastError' = NoError
         /\ UNCHANGED <<uploadedFile, downloadUrl>>

callDonutRetrying ==
  /\ pc = "detect"
  /\ \E r \in Responses :
       /\ response' = r
       /\ IF ~Ok(r) /\ Len(requests) < 2
            THEN /\ requests' = Append(requests, [url |-> "inference",
                                                  token |-> inv.hfToken])
                 /\ UNCHANGED <<ui, pc, lastError, detectedFields>>
          ELSE IF ~Ok(r) \/ r.body.shape = "invalid"
            THEN Fail(Error("TypeError", 0)) /\ UNCHANGED <<detectedFields, requests>>
          ELSE /\ detectedFields' = DetectedFieldsOf(r.body)
               /\ pc' = "load"
               /\ UNCHANGED <<ui, lastError, requests>>
  /\ UNCHANGED <<props, inv, invCount, customFont, draws, pageBoxes, fontResponse>>
\* the detection request settles with r: the rest of callDonut / detectFields,
\* then the caller up to its next await (PDFDocument.load)
callDonut ==
  /\ pc = "detect"
  /\ \E r \in Responses :
       /\ response' = r
       /\ IF r.kind = "network_error"
            THEN Fail(Error("TypeError", 0)) /\ UNCHANGED detectedFields
          ELSE IF ~Ok(r)
            THEN Fail(UpstreamError(r.status)) /\ UNCHANGED detectedFields
          ELSE IF r.body.shape = "invalid"
            THEN Fail(Error("SyntaxError", 0)) /\ UNCHANGED detectedFields
          ELSE /\ detectedFields' = DetectedFieldsOf(r.body)
               /\ IF Len(DetectedFieldsOf(r.body)) = 0
                    THEN NoUsableFields
                    ELSE pc' = "load" /\ UNCHANGED <<ui, lastError>>
  /\ UNCHANGED <<props, inv, invCount, requests, customFont, draws, pageBoxes,
                 fontResponse>>

\* PDFDocument.load settles; on success the font request is sent
loadDocument ==
  /\ pc = "load"
  /\ IF Loads(inv.file)
       THEN /\ requests' = Append(requests, [url |-> "font", token |-> NoToken])
            /\ pc' = "font"
            /\ UNCHANGED <<ui, lastError>>
       ELSE /\ Fail(Error(IF variant = "mutation" THEN "PDFDocument.load"
                                                  ELSE "Failed to process PDF file", 0))
            /\ UNCHANGED requests
  /\ UNCHANGED <<props, inv, invCount, response, detectedFields, customFont, draws,
                 pageBoxes, fontResponse>>

FontForNoFallback(outcome) == IF outcome = "ok" THEN "DancingScript" ELSE ""
\* the font a font-fetch outcome leaves in customFont (try / catch around the
\* fetch and embedFont)
FontFor(outcome) == IF outcome = "ok" THEN "DancingScript" ELSE "HelveticaOblique"

embedFontAndFillSignatureErrorFatal ==
  /\ pc = "font"
  /\ \E outcome \in FontOutcomes, saveOk \in BOOLEAN :
       /\ fontResponse' = outcome
       /\ customFont' = FontFor(outcome)
       /\ IF /\ inv.signatureDataUrl # Null /\ ~PngEmbeds(inv.signatureDataUrl)
             /\ \E i \in 1..Len(detectedFields) : detectedFields[i].field = S_signature
            THEN /\ draws' = <<>>
                 /\ Fail(Error("embedPng", 0))
            ELSE /\ draws' = fillTemplate(detectedFields, inv.formData,
                                          inv.signatureDataUrl,
                                          PageSize(inv.file).height, FontFor(outcome))
                 /\ IF saveOk THEN Succeed(inv.file)
                              ELSE Fail(Error("PDFDocument.save", 0))
  /\ UNCHANGED <<props, inv, invCount, requests, response, detectedFields, pageBoxes>>
\* the font request settles: the font is embedded, the fill loop runs, the
\* document is saved (saveOk) and the invocation ends
embedFontAndFill ==
  /\ pc = "font"
  /\ \E outcome \in FontOutcomes, saveOk \in BOOLEAN :
       /\ fontResponse' = outcome
       /\ customFont' = FontFor(outcome)
       /\ draws' = fillTemplate(detectedFields, inv.formData, inv.signatureDataUrl,
                                PageSize(inv.file).height, FontFor(outcome))
       /\ IF saveOk
            THEN Succeed(inv.file)
            ELSE Fail(Error(IF variant = "mutation" THEN "PDFDocument.save"
                                                    ELSE "Failed to process PDF file", 0))
  /\ UNCHANGED <<props, inv, invCount, requests, response, detectedFields, pageBoxes>>

Next ==
  \/ \E d \in Files \cup {Null} : onDrop(d)
  \/ handleProcess
  \/ simulateFormProcessing
  \/ imageLoaded
  \/ firstPageToJpeg
  \/ callDonut
  \/ loadDocument
  \/ embedFontAndFill

Spec == Init /\ [][Next]_vars

\* The processors with the scheduling the code provides: rasterization,
\* PDFDocument.load, the 3 s timer and the decoding of the signature image
\* are local and settle once started; the detection request and the font
\* request settle when the network answers, and no timer, abort signal or
\* other statement of the code bounds the wait for them.
InitLive ==
  /\ Init
  /\ formData = AnnRecord
  /\ signatureDataUrl = ValidSignature
  /\ hfToken = HfToken

Fairness ==
  /\ WF_vars(firstPageToJpeg)
  /\ WF_vars(loadDocument)
  /\ WF_vars(simulateFormProcessing)
  /\ WF_vars(imageLoaded)

SpecLive == InitLive /\ [][Next]_vars /\ Fairness

TypeOK ==
  /\ variant \in {"mutation", "inline", "simulated"}
  /\ uploadedFile \in PdfFiles \cup {Null}
  /\ processingResult \in {Null, "complete", "incomplete"}
  /\ downloadUrl \in PdfFiles \cup {Null}
  /\ isPending \in BOOLEAN
  /\ pc \in {"idle", "timer", "image", "raster", "detect", "load", "font"}
  /\ invCount \in 0..MaxInvocations

\* ------------------------------------------------------------------------
\* The library functions on their own: Init draws a 2xx response body, a
\* record and a signature; the actions apply callDonut's parsing and then
\* fillTemplate's loop to them.
\* ------------------------------------------------------------------------
CoreBox == <<100, 150, 200, 170>>
CoreLabels == {S_First_Name, S_first_space_name, S_FIRSTNAME, S_signature, S_Phone, S_total}
CoreEntries ==
  {Entry(Some(w), b, c) : w \in CoreLabels, b \in {None, Some(CoreBox)},
                          c \in {None, Some(0), Some(50)}}
    \cup {Entry(Some(<<>>), Some(CoreBox), None)}
CoreBodies(n) ==
  ArrayBodies(CoreEntries, n) \cup ObjectBodies(CoreEntries, n)
    \cup {NullBody, ScalarBody}

InitCore ==
  /\ response \in {HttpResponse(200, b) : b \in CoreBodies(MaxEntries)}
  /\ variant = "mutation"
  /\ formData = JaneRecord
  /\ signatureDataUrl \in {Null, ValidSignature, CorruptSignature}
  /\ hfToken = HfToken
  /\ pin = <<>>
  /\ store = EmptyStore
  /\ uploadedFile = "form.pdf"
  /\ processingResult = Null
  /\ downloadUrl = Null
  /\ isPending = TRUE
  /\ toast = ""
  /\ pc = "core_detect"
  /\ inv = [file |-> "form.pdf", formData |-> formData,
            signatureDataUrl |-> signatureDataUrl, hfToken |-> hfToken]
  /\ invCount = 1
  /\ requests = <<>>
  /\ detectedFields = <<>>
  /\ customFont = ""
  /\ draws = <<>>
  /\ pageBoxes = <<>>
  /\ fontResponse = "none"
  /\ lastError = NoError

\* callDonut from `const result = await res.json()` to its return
parseResponse ==
  /\ pc = "core_detect"
  /\ detectedFields' = DetectedFieldsOf(response.body)
  /\ pc' = "core_fill"
  /\ UNCHANGED <<props, ui, inv, invCount, requests, response, customFont, draws,
                 pageBoxes, fontResponse, lastError>>

\* fillTemplate from the font fallback to the end of the fill loop
fillFields ==
  /\ pc = "core_fill"
  /\ fontResponse' = "http_error"
  /\ customFont' = FontFor("http_error")
  /\ draws' = fillTemplate(detectedFields, inv.formData, inv.signatureDataUrl,
                           PageSize(inv.file).height, FontFor("http_error"))
  /\ pc' = "core_done"
  /\ UNCHANGED <<props, ui, inv, invCount, requests, response, detectedFields,
                 pageBoxes, lastError>>

NextCore == parseResponse \/ fillFields

SpecCore == InitCore /\ [][NextCore]_vars

\* ------------------------------------------------------------------------
\* The fill loop and scaleBox on their own: Init draws a list of detected
\* fields (as callDonut returns them: any label, any four numbers as bbox), a
\* record and a signature; the actions apply fillTemplate's loop and scaleBox.
\* ------------------------------------------------------------------------
S_name == <<"n", "a", "m", "e">>
S_full_name == <<"f", "u", "l", "l", "_", "n", "a", "m", "e">>

\* page.getViewport({ scale }): the size of the bitmap in pixels
Viewport(f, scale) ==
  [width |-> PageSize(f).width * scale, height |-> PageSize(f).height * scale]
ImageSizes == {Viewport("form.pdf", sc) : sc \in {1, RasterScale}}

FillFields ==
  { MakeField(S_first_name, <<100, 150, 200, 170>>, DefaultConfidence),
    MakeField(S_name,       <<100, 150, 200, 170>>, DefaultConfidence),
    MakeField(S_full_name,  <<0, 0, 200, 20>>, DefaultConfidence),
    MakeField(S_gender,     <<100, 150, 200, 170>>, DefaultConfidence),
    MakeField(S_total,      <<100, 150, 200, 170>>, DefaultConfidence),
    MakeField(S_date,       <<300, 700, 500, 792>>, DefaultConfidence),
    MakeField(S_address,    <<100, 1564, 300, 1584>>, DefaultConfidence),
    MakeField(S_last_name,  <<250, 150, 150, 170>>, DefaultConfidence),
    MakeField(S_signature,  <<100, 400, 250, 450>>, DefaultConfidence),
    MakeField(S_signature,  <<100, 400, 400, 500>>, DefaultConfidence),
    MakeField(S_signature,  <<100, 400, 110, 450>>, DefaultConfidence),
    MakeField(S_signature,  <<200, 450, 100, 400>>, DefaultConfidence) }
FillLists(n) == SeqsUpTo(FillFields, n) \ {<<>>}

InitFill ==
  /\ detectedFields \in FillLists(MaxEntries)
  /\ variant = "mutation"
  /\ formData \in {INITIAL_FORM_DATA, JaneRecord, AnnRecord}
  /\ signatureDataUrl \in {Null, ValidSignature, CorruptSignature}
  /\ hfToken = HfToken
  /\ pin = <<>>
  /\ store = EmptyStore
  /\ uploadedFile = "form.pdf"
  /\ processingResult = Null
  /\ downloadUrl = Null
  /\ isPending = TRUE
  /\ toast = ""
  /\ pc = "core_fill"
  /\ inv = [file |-> "form.pdf", formData |-> formData,
            signatureDataUrl |-> signatureDataUrl, hfToken |-> hfToken]
  /\ invCount = 1
  /\ requests = <<>>
  /\ response = NoResponse
  /\ customFont = ""
  /\ draws = <<>>
  /\ pageBoxes = <<>>
  /\ fontResponse = "none"
  /\ lastError = NoError

\* scaleBox applied to the bbox of each detected field, for a bitmap of size img
scaleBoxes ==
  /\ pc = "core_fill"
  /\ pageBoxes = <<>>
  /\ \E img \in ImageSizes :
       pageBoxes' =
         [i \in 1..Len(detectedFields) |->
            [bbox |-> detectedFields[i].bbox, img |-> img, page |-> PageSize(inv.file),
             box |-> scaleBox(detectedFields[i].bbox, img.width, img.height,
                              PageSize(inv.file).width, PageSize(inv.file).height)]]
  /\ UNCHANGED <<props, ui, pc, inv, invCount, requests, response, detectedFields,
                 customFont, draws, fontResponse, lastError>>

NextFill == scaleBoxes \/ fillFields

SpecFill == InitFill /\ [][NextFill]_vars

\* ------------------------------------------------------------------------
\* FormProcessor: the personal record, the signature and the PIN, with the
\* profiles kept in localStorage.
\* ------------------------------------------------------------------------
FormKeys == <<"firstName", "middleName", "lastName", "gender", "maritalStatus",
              "cellPhone", "workPhone", "homeAddress", "state", "zipCode">>

\* { formData, signatureDataUrl, timestamp: Date.now() }
Profile(fd, sig, t) == [formData |-> fd, signatureDataUrl |-> sig, timestamp |-> t]

\* JSON.stringify(profile): the members in order, each a name and its value;
\* a null signature is written as JSON null
Stringify(profile) ==
  << <<"formData", [i \in 1..Len(FormKeys) |->
                      <<FormKeys[i], profile.formData[FormKeys[i]]>>]>>,
     <<"signatureDataUrl", profile.signatureDataUrl>>,
     <<"timestamp", profile.timestamp>> >>

\* the value of the member `name` among the members of a JSON object
Member(members, name) ==
  members[CHOOSE i \in 1..Len(members) : members[i][1] = name][2]

\* JSON.parse(saved)
Parse(text) ==
  [formData |-> [k \in {FormKeys[i] : i \in 1..Len(FormKeys)} |->
                   Member(Member(text, "formData"), k)],
   signatureDataUrl |-> Member(text, "signatureDataUrl"),
   timestamp |-> Member(text, "timestamp")]

\* the state of the processor rendered inside FormProcessor
processor == <<variant, hfToken, uploadedFile, processingResult, downloadUrl,
               isPending, pc, inv, invCount, run>>

InitProfile ==
  /\ variant = "mutation"
  /\ formData = INITIAL_FORM_DATA
  /\ signatureDataUrl = Null
  /\ hfToken = HfToken
  /\ pin = <<>>
  /\ store \in {EmptyStore,
                 [EmptyStore EXCEPT ![ProfileKey(<<"1", "2", "3", "4", "5">>)] =
                    Stringify(Profile(JaneRecord, ValidSignature, 1))]}
  /\ uploadedFile = Null
  /\ processingResult = Null
  /\ downloadUrl = Null
  /\ isPending = FALSE
  /\ toast = ""
  /\ pc = "idle"
  /\ inv = NoInvocation
  /\ invCount = 0
  /\ requests = <<>>
  /\ response = NoResponse
  /\ detectedFields = <<>>
  /\ customFont = ""
  /\ draws = <<>>
  /\ pageBoxes = <<>>
  /\ fontResponse = "none"
  /\ lastError = NoError

\* onChange of the PIN input
setPin(p) ==
  /\ pin' = p
  /\ UNCHANGED <<formData, signatureDataUrl, store, toast, processor>>

\* the record as edited in PersonalInfoForm
setFormData(fd) ==
  /\ formData' = fd
  /\ UNCHANGED <<pin, signatureDataUrl, store, toast, processor>>

\* SignatureCanvas: onSignatureChange(dataUrl) / onSignatureChange(null)
setSignatureDataUrl(sig) ==
  /\ signatureDataUrl' = sig
  /\ UNCHANGED <<pin, formData, store, toast, processor>>

\* saveProfile; localStorage.setItem either stores the item or throws
\* (quota), which the catch block reports
saveProfile ==
  /\ IF pin = <<>> \/ Len(pin) < 4
       THEN /\ toast' = "Please enter a valid PIN (4-6 digits)"
            /\ UNCHANGED store
       ELSE \E stored \in BOOLEAN, now \in 1..MaxClock :
              IF stored
                THEN /\ store' = [store EXCEPT ![ProfileKey(pin)] =
                                    Stringify(Profile(formData, signatureDataUrl, now))]
                     /\ toast' = "Profile saved successfully!"
                ELSE /\ toast' = "Error saving profile"
                     /\ UNCHANGED store
  /\ UNCHANGED <<pin, formData, signatureDataUrl, processor>>

\* loadProfile
loadProfile ==
  /\ IF pin = <<>> \/ Len(pin) < 4
       THEN /\ toast' = "Please enter a valid PIN (4-6 digits)"
            /\ UNCHANGED <<formData, signatureDataUrl>>
     ELSE IF store[ProfileKey(pin)] # NoItem
       THEN /\ formData' = Parse(store[ProfileKey(pin)]).formData
            /\ signatureDataUrl' = Parse(store[ProfileKey(pin)]).signatureDataUrl
            /\ toast' = "Profile loaded successfully!"
     ELSE /\ toast' = "No profile found for this PIN"
          /\ UNCHANGED <<formData, signatureDataUrl>>
  /\ UNCHANGED <<pin, store, processor>>

NextProfile ==
  \/ \E p \in Pins : setPin(p)
  \/ \E fd \in {INITIAL_FORM_DATA, JaneRecord, AnnRecord} : setFormData(fd)
  \/ \E sig \in {Null, ValidSignature} : setSignatureDataUrl(sig)
  \/ saveProfile
  \/ loadProfile

SpecProfile == InitProfile /\ [][NextProfile]_vars

\* ------------------------------------------------------------------------
\* Properties
\* ------------------------------------------------------------------------
DrawnFor(labels) == \E i \in 1..Len(draws) : draws[i].field \in labels
HasBbox(e) == IsSome(e.bbox)
Labelled(body) == \A i \in 1..Len(body.items) : TruthyString(body.items[i].word)
\* the entries of a body that carry a bbox, in order
Kept(body) == SelectSeq(body.items, HasBbox)
\* the lower-case form of each label the responses are built from
LowerOf(w) ==
  CASE w = S_First_Name -> S_first_name
    [] w = S_FIRSTNAME -> S_firstname
    [] w = S_Phone -> S_phone
    [] OTHER -> w

\* C1: a finished invocation shows 'complete' only if a field of each basic
\* kind (name, phone, address, signature) was drawn.
C1_CompleteOnlyWithAllBasicKinds ==
  (pc = "idle" /\ processingResult = "complete") =>
    /\ DrawnFor({S_first_name, S_firstname, S_last_name, S_lastname})
    /\ DrawnFor({S_phone, S_cell_phone, S_cellphone, S_work_phone, S_workphone})
    /\ DrawnFor({S_address, S_home_address, S_homeaddress})
    /\ DrawnFor({S_signature})

C2_FallbackList ==
  << [field |-> S_first_name, value |-> "", bbox |-> <<100, 150, 200, 170>>, confidence |-> 90],
     [field |-> S_last_name, value |-> "", bbox |-> <<250, 150, 350, 170>>, confidence |-> 90],
     [field |-> S_phone, value |-> "", bbox |-> <<100, 200, 250, 220>>, confidence |-> 90],
     [field |-> S_address, value |-> "", bbox |-> <<100, 250, 400, 270>>, confidence |-> 90],
     [field |-> S_signature, value |-> "", bbox |-> <<100, 400, 250, 450>>, confidence |-> 90] >>
C2_Usable(body, e) == IsSome(e.bbox) /\ (body.shape = "array" => TruthyString(e.word))
C2_UsableCount(body) ==
  Cardinality({i \in 1..Len(body.items) : C2_Usable(body, body.items[i])})

\* C2: when a 2xx response yields no usable entry the detector returns exactly
\* the five fallback fields, in order and with their boxes; when it yields at
\* least one, the returned list has one field per usable entry and no more.
C2_FallbackExactlyWhenNothingParsed ==
  pc \in {"core_fill", "core_done"} =>
    IF C2_UsableCount(response.body) = 0
      THEN detectedFields = C2_FallbackList
      ELSE Len(detectedFields) = C2_UsableCount(response.body)

C2_Witness ==
  /\ pc = "core_done"
  /\ response.body.shape = "object"
  /\ Len(response.body.items) = 2
  /\ C2_UsableCount(response.body) = 0
  /\ detectedFields = C2_FallbackList

\* the invocation that just finished drew the fallback set
C3_UsedFallback == Ok(response) /\ ParseResult(response.body) = <<>>

\* C3: an invocation that used the fallback set is never reported 'complete'.
C3_FallbackNeverComplete ==
  (pc = "idle" /\ processingResult = "complete") => ~C3_UsedFallback

\* the pattern hf_*
C4_MatchesHfPattern(t) == Len(t) >= 3 /\ t[1] = "h" /\ t[2] = "f" /\ t[3] = "_"

\* C4: no request reaches the inference endpoint with a credential that is
\* absent or does not match hf_*.
C4_NoRequestWithoutValidCredential ==
  \A i \in 1..Len(requests) :
    requests[i].url = "inference" => C4_MatchesHfPattern(requests[i].token)

C5_NonSuccess(res) == res.kind = "http" /\ res.status \notin 200..299

\* C5: when the detection call completes with a non-success status, detection
\* throws an error carrying that status, no field list is returned, nothing is
\* composited (no font request, no draw) and the invocation ends 'incomplete'.
C5_NonSuccessStatusFails ==
  [][/\ C5_NonSuccess(response') =>
          /\ lastError'.status = response'.status
          /\ lastError'.kind \in {"HF error", "Hugging Face API error"}
          /\ detectedFields' = <<>>
          /\ draws' = <<>>
          /\ \A i \in 1..Len(requests') : requests'[i].url # "font"
     /\ (pc = "detect" /\ C5_NonSuccess(response')) =>
          (pc' = "idle" /\ ~isPending' /\ processingResult' = "incomplete")]_vars

C5_Witness ==
  /\ response = HttpResponse(503, NullBody)
  /\ lastError.status = 503
  /\ processingResult = "incomplete"
  /\ pc = "idle"

\* C6: whenever processingResult is 'incomplete' no download URL is offered.
C6_IncompleteImpliesNoDownload ==
  processingResult = "incomplete" => downloadUrl = Null

\* the same entries in the other response shape
C7_Twin(body) ==
  [shape |-> IF body.shape = "array" THEN "object" ELSE "array", items |-> body.items]
\* a body both shapes can express: every entry has a non-empty label and no
\* label occurs twice
C7_BothShapes(body) ==
  body.shape \in {"array", "object"} /\ Labelled(body) /\ DistinctWords(body.items)
\* label and bbox of each detected field
C7_LabelsAndBoxes(fields) ==
  [i \in 1..Len(fields) |-> <<fields[i].field, fields[i].bbox>>]
C7_Expected(body) ==
  [i \in 1..Len(Kept(body)) |->
     <<LowerOf(Get(Kept(body)[i].word)), Get(Kept(body)[i].bbox)>>]

C8_DetectionErrors ==
  {"TypeError", "SyntaxError", "HF error", "Hugging Face API error",
   "No form fields could be detected"}

C9_ConfidenceSuppliedOrDefault ==
  (pc \in {"core_fill", "core_done"} /\ C7_BothShapes(response.body)) =>
    IF Kept(response.body) = <<>>
      THEN \A i \in 1..Len(detectedFields) : detectedFields[i].confidence = 90
      ELSE /\ Len(detectedFields) = Len(Kept(response.body))
           /\ \A i \in 1..Len(detectedFields) :
                detectedFields[i].confidence =
                  IF IsSome(Kept(response.body)[i].confidence)
                    THEN Get(Kept(response.body)[i].confidence)
                    ELSE 90

\* C10: the labels "First_Name", "first name" and "FIRSTNAME" all resolve to
\* the first-name kind: each such detected field is filled with the record's
\* first name.
C10_FirstNameFormsFilled ==
  pc = "core_done" =>
    \A i \in 1..Len(detectedFields) :
      detectedFields[i].field \in {S_first_name, S_first_space_name, S_firstname} =>
        \E j \in 1..Len(draws) :
          /\ draws[j].op = "text"
          /\ draws[j].field = detectedFields[i].field
          /\ draws[j].bbox = detectedFields[i].bbox
          /\ draws[j].text = inv.formData.firstName

\* first, middle and last name joined by single spaces, empty parts elided
C11_Join(a, b) == IF a = "" THEN b ELSE IF b = "" THEN a ELSE a \o " " \o b
C11_FullName(r) == C11_Join(C11_Join(r.firstName, r.middleName), r.lastName)

\* C11: a detected field labelled 'name' or 'full_name' is filled with the
\* record's first, middle and last names joined by single spaces, an empty
\* middle name elided.
C11_FullNameFilled ==
  pc = "core_done" =>
    \A i \in 1..Len(detectedFields) :
      (detectedFields[i].field \in {S_name, S_full_name}
         /\ C11_FullName(inv.formData) # "") =>
        \E j \in 1..Len(draws) :
          /\ draws[j].op = "text"
          /\ draws[j].field = detectedFields[i].field
          /\ draws[j].bbox = detectedFields[i].bbox
          /\ draws[j].text = C11_FullName(inv.formData)

\* the synonym table: the member of the record a label stands for ("" if none)
C12_RecordKey(l) ==
  CASE l \in {S_first_name, S_firstname} -> "firstName"
    [] l \in {S_middle_name, S_middlename} -> "middleName"
    [] l \in {S_last_name, S_lastname} -> "lastName"
    [] l = S_gender -> "gender"
    [] l \in {S_marital_status, S_maritalstatus} -> "maritalStatus"
    [] l \in {S_phone, S_cell_phone, S_cellphone} -> "cellPhone"
    [] l \in {S_work_phone, S_workphone} -> "workPhone"
    [] l \in {S_address, S_home_address, S_homeaddress} -> "homeAddress"
    [] l = S_state -> "state"
    [] l \in {S_zip, S_zipcode, S_zip_code} -> "zipCode"
    [] OTHER -> ""
\* the text a label resolves to: "" for an unknown label, for the signature
\* and for a known kind whose record value is empty
C12_Value(l, rec) ==
  IF l = S_date THEN Today
  ELSE IF C12_RecordKey(l) = "" THEN ""
  ELSE rec[C12_RecordKey(l)]
\* the field resolves to something that can be drawn
C12_Resolves(f, rec, sig) ==
  IF f.field = S_signature THEN sig # Null ELSE C12_Value(f.field, rec) # ""

\* C12: a text draw is issued for a detected field only if its label is in
\* the table and the value it resolves to is not empty (the text drawn is that
\* value, never the empty string); a field with an unknown label or an empty
\* value gets no draw; a list in which no field resolves yields no draw at all.
C12_TextDrawnOnlyForResolvedFields ==
  pc = "core_done" =>
    /\ \A j \in 1..Len(draws) :
         draws[j].op = "text" =>
           /\ draws[j].text # ""
           /\ draws[j].text = C12_Value(draws[j].field, inv.formData)
    /\ \A i \in 1..Len(detectedFields) :
         ~C12_Resolves(detectedFields[i], inv.formData, inv.signatureDataUrl) =>
           ~\E j \in 1..Len(draws) :
              /\ draws[j].field = detectedFields[i].field
              /\ draws[j].bbox = detectedFields[i].bbox
    /\ (\A i \in 1..Len(detectedFields) :
          ~C12_Resolves(detectedFields[i], inv.formData, inv.signatureDataUrl))
         => draws = <<>>

C12_Witness ==
  /\ pc = "core_done"
  /\ inv.formData = JaneRecord
  /\ Len(detectedFields) = 2
  /\ detectedFields[1].field = S_gender
  /\ detectedFields[2].field = S_total
  /\ draws = <<>>

\* C13: a signature field is drawn as the signature image when a signature is
\* supplied; with no signature no image is drawn; a signature field never
\* gets a text draw.
C13_SignatureImageOrNothing ==
  pc = "core_done" =>
    /\ \A j \in 1..Len(draws) : draws[j].field = S_signature => draws[j].op = "image"
    /\ inv.signatureDataUrl = Null =>
         \A j \in 1..Len(draws) : draws[j].op # "image"
    /\ inv.signatureDataUrl = ValidSignature =>
         \A i \in 1..Len(detectedFields) :
           detectedFields[i].field = S_signature =>
             \E j \in 1..Len(draws) :
               draws[j].op = "image" /\ draws[j].bbox = detectedFields[i].bbox

C13_Witness ==
  /\ pc = "core_done"
  /\ inv.signatureDataUrl = Null
  /\ inv.formData = AnnRecord
  /\ Len(detectedFields) = 2
  /\ detectedFields[1].field = S_first_name
  /\ detectedFields[2].field = S_signature
  /\ Len(draws) = 1
  /\ draws[1].op = "text"

\* operation, label and text of each draw
C14_Summary(d) == [i \in 1..Len(d) |-> <<d[i].op, d[i].field, d[i].text>>]

\* C14: filling the fallback set against the record Jane / Doe / 555-1212 /
\* 1 Main St with no signature issues exactly four text draws (first_name,
\* last_name, phone, address with those values) and nothing for the signature.
C14_FallbackSetAgainstJane ==
  (/\ pc = "core_done"
   /\ detectedFields = C2_FallbackList
   /\ inv.formData.firstName = "Jane" /\ inv.formData.lastName = "Doe"
   /\ inv.formData.cellPhone = "555-1212" /\ inv.formData.homeAddress = "1 Main St"
   /\ inv.signatureDataUrl = Null) =>
    C14_Summary(draws) =
      << <<"text", S_first_name, "Jane">>, <<"text", S_last_name, "Doe">>,
         <<"text", S_phone, "555-1212">>, <<"text", S_address, "1 Main St">> >>

C14_Witness ==
  /\ pc = "core_done"
  /\ response.body = NullBody
  /\ detectedFields = C2_FallbackList
  /\ inv.formData = JaneRecord
  /\ inv.signatureDataUrl = Null
  /\ Len(draws) = 4

\* C15: every draw is positioned at the page-space mapping of the detected
\* box: with the bitmap rendered at scale s = 2, x is x1/s plus the 5pt offset
\* and y is pageHeight - y2/s plus (text) or minus (image) the 5pt offset.
C15_DrawsAtPageSpacePosition ==
  \A j \in 1..Len(draws) :
    /\ (draws[j].x - 5) * RasterScale = draws[j].bbox[1]
    /\ \E offset \in {-5, 5} :
         (PageSize(inv.file).height + offset - draws[j].y) * RasterScale
           = draws[j].bbox[4]

\* the top edge of a box returned by scaleBox: y + height
C16_Top(b) == RatAdd(b[2], b[4])

\* C16: the mapping is linear per axis and flips the vertical axis: x, bottom
\* and top are x1*pageWidth/imageWidth, pageHeight - y2*pageHeight/imageHeight
\* and pageHeight - y1*pageHeight/imageHeight, so a box with y1 = 0 has its
\* top at pageHeight and a box with y2 = imageHeight has its bottom at 0;
\* width and height are (x2-x1)*pageWidth/imageWidth and
\* (y2-y1)*pageHeight/imageHeight.
C16_MappingLinearAndFlipped ==
  \A i \in 1..Len(pageBoxes) :
    LET r == pageBoxes[i]
        b == r.box
        x1 == r.bbox[1]
        y1 == r.bbox[2]
        x2 == r.bbox[3]
        y2 == r.bbox[4]
    IN /\ RatEq(b[1], Rat(x1 * r.page.width, r.img.width))
       /\ RatEq(b[2], Rat(r.page.height * r.img.height - y2 * r.page.height,
                          r.img.height))
       /\ RatEq(C16_Top(b), Rat(r.page.height * r.img.height - y1 * r.page.height,
                                r.img.height))
       /\ y1 = 0 => RatEq(C16_Top(b), Rat(r.page.height, 1))
       /\ y2 = r.img.height => RatEq(b[2], Rat(0, 1))
       /\ RatEq(b[3], Rat((x2 - x1) * r.page.width, r.img.width))
       /\ RatEq(b[4], Rat((y2 - y1) * r.page.height, r.img.height))

C16_Witness ==
  /\ Len(pageBoxes) = 2
  /\ pageBoxes[1].bbox = <<0, 0, 200, 20>>
  /\ pageBoxes[1].img = [width |-> 1224, height |-> 1584]
  /\ RatEq(C16_Top(pageBoxes[1].box), Rat(792, 1))
  /\ RatEq(pageBoxes[1].box[3], Rat(100, 1))
  /\ pageBoxes[2].bbox = <<100, 1564, 300, 1584>>
  /\ RatEq(pageBoxes[2].box[2], Rat(0, 1))
  /\ RatEq(pageBoxes[2].box[4], Rat(10, 1))

\* C17: every drawn signature image lies within the box of its field (the
\* bbox with the vertical axis flipped): its bottom-left corner is not left of
\* or below the box's bottom-left corner and the image does not extend past
\* the right or the top edge.
C17_SignatureWithinBox ==
  \A j \in 1..Len(draws) :
    draws[j].op = "image" =>
      /\ draws[j].x >= draws[j].bbox[1]
      /\ draws[j].x + draws[j].width <= draws[j].bbox[3]
      /\ draws[j].y >= PageSize(inv.file).height - draws[j].bbox[4]
      /\ draws[j].y + draws[j].height <= PageSize(inv.file).height - draws[j].bbox[2]

\* C18: a drawn signature is never wider than 150pt nor than the box width
\* minus the 5pt inset, and never taller than 50pt nor than the box height
\* minus the inset.
C18_SignatureSizeClipped ==
  \A j \in 1..Len(draws) :
    draws[j].op = "image" =>
      /\ draws[j].width <= 150
      /\ draws[j].width <= draws[j].bbox[3] - draws[j].bbox[1] - 5
      /\ draws[j].height <= 50
      /\ draws[j].height <= draws[j].bbox[4] - draws[j].bbox[2] - 5

C18_Witness ==
  /\ pc = "core_done"
  /\ Len(draws) = 2
  /\ draws[1].op = "image"
  /\ draws[1].bbox = <<100, 400, 400, 500>>
  /\ draws[1].width = 150
  /\ draws[1].height = 50
  /\ draws[2].op = "image"
  /\ draws[2].bbox = <<100, 400, 250, 450>>
  /\ draws[2].width = 140
  /\ draws[2].height = 40

\* C19: a signature whose box is 10pt wide is drawn 150pt wide.
C19_TenPointBoxDrawnAtMaximum ==
  \A j \in 1..Len(draws) :
    (draws[j].op = "image" /\ draws[j].bbox[3] - draws[j].bbox[1] = 10) =>
      draws[j].width = 150

\* C20: nothing is drawn for a field whose bbox has x2 < x1 or y2 < y1, and no
\* image is drawn with a width or height that is zero or negative.
C20_NoDrawForInvertedBox ==
  \A j \in 1..Len(draws) :
    /\ draws[j].bbox[3] >= draws[j].bbox[1]
    /\ draws[j].bbox[4] >= draws[j].bbox[2]
    /\ draws[j].op = "image" => (draws[j].width > 0 /\ draws[j].height > 0)

\* the errors pdfDoc.save() ends an invocation with
C21_SaveErrors == {"PDFDocument.save", "Failed to process PDF file"}

\* C21: when the signature cannot be embedded, only the signature fields are
\* skipped: every other field that resolves to a value is still drawn,
\* whether it comes before or after a signature field, and the invocation
\* ends with the document serialized ('complete', download offered) unless
\* serialization itself fails.
C21_SignatureFailureConfinedToField ==
  [][(pc = "font" /\ pc' = "idle" /\ inv.signatureDataUrl = CorruptSignature) =>
       /\ \A i \in 1..Len(detectedFields) :
            (detectedFields[i].field # S_signature
               /\ C12_Value(detectedFields[i].field, inv.formData) # "") =>
              \E j \in 1..Len(draws') :
                /\ draws'[j].op = "text"
                /\ draws'[j].field = detectedFields[i].field
                /\ draws'[j].bbox = detectedFields[i].bbox
       /\ \A j \in 1..Len(draws') : draws'[j].op # "image"
       /\ \/ processingResult' = "complete" /\ downloadUrl' = inv.file
          \/ lastError'.kind \in C21_SaveErrors]_vars

C21_Witness ==
  /\ pc = "idle"
  /\ processingResult = "complete"
  /\ inv.signatureDataUrl = CorruptSignature
  /\ inv.formData = AnnRecord
  /\ Len(detectedFields) = 2
  /\ detectedFields[1].field = S_signature
  /\ detectedFields[2].field = S_first_name
  /\ Len(draws) = 1
  /\ draws[1].field = S_first_name
  /\ draws[1].text = "Ann"

\* C22: whatever the font request comes back with (network error, non-success
\* status, bytes that cannot be embedded), the fill loop runs with a font
\* set, the standard oblique font when the fetch failed, every text is drawn
\* with that font, and the invocation ends with output unless serialization
\* fails.
C22_FontFailureFallsBack ==
  [][(pc = "font" /\ pc' # "font") =>
       /\ fontResponse' \in FontOutcomes
       /\ customFont' # ""
       /\ fontResponse' # "ok" => customFont' = "HelveticaOblique"
       /\ \A j \in 1..Len(draws') :
            draws'[j].op = "text" => draws'[j].font = customFont'
       /\ \/ processingResult' = "complete" /\ downloadUrl' = inv.file
          \/ lastError'.kind \in C21_SaveErrors]_vars

C22_Witness ==
  /\ pc = "idle"
  /\ processingResult = "complete"
  /\ fontResponse = "network_error"
  /\ customFont = "HelveticaOblique"
  /\ Len(draws) = 2
  /\ draws[1].op = "text"
  /\ draws[1].font = "HelveticaOblique"

\* C23: every started invocation eventually leaves the in-flight state, even
\* if the detection request or the font request is never answered.
C23_InvocationEventuallyEnds == isPending ~> ~isPending

\* the detection requests among the requests of the current invocation
C24_DetectionRequests(reqs) == {i \in 1..Len(reqs) : reqs[i].url = "inference"}
\* the detection attempt failed: no answer, a non-success status, or a body
\* that is not JSON
C24_DetectionFailed(res) ==
  res.kind = "network_error" \/ C5_NonSuccess(res)
    \/ (res.kind = "http" /\ res.body.shape = "invalid")

\* C24: an invocation issues at most one detection request; a failed
\* detection attempt ends the invocation in failure without another request;
\* requests are sent only by an invocation the caller started.
C24_OneDetectionRequestPerInvocation ==
  [][/\ Cardinality(C24_DetectionRequests(requests')) <= 1
     /\ Len(requests') > Len(requests) => (pc # "idle" /\ isPending)
     /\ (pc = "detect" /\ C24_DetectionFailed(response')) =>
          /\ pc' = "idle"
          /\ ~isPending'
          /\ processingResult' = "incomplete"
          /\ requests' = requests]_vars

C24_Witness ==
  /\ pc = "idle"
  /\ invCount = 2
  /\ response = NetworkError
  /\ lastError.kind = "TypeError"
  /\ processingResult = "incomplete"
  /\ Len(requests) = 1
  /\ requests[1].url = "inference"

\* C25: in the processors that fill the uploaded PDF, a download URL that is
\* offered always belongs to the file that is currently uploaded: the
\* completion of an invocation that was abandoned by replacing the file does
\* not set the result or the URL.
C25_DownloadBelongsToUploadedFile ==
  (variant \in {"mutation", "inline"} /\ downloadUrl # Null) =>
    downloadUrl = uploadedFile

\* C26: whenever the detection request is answered with a success status and
\* a JSON body, the detector returns at least one field and the invocation
\* goes on to compositing; the 'No form fields could be detected' branch is
\* never taken.
C26_DetectionNeverYieldsEmptyList ==
  [][/\ (pc = "detect" /\ Ok(response') /\ response'.body.shape # "invalid") =>
          /\ detectedFields' # <<>>
          /\ pc' = "load"
          /\ isPending'
          /\ lastError' = NoError
     /\ lastError'.kind # "No form fields could be detected"
     /\ toast' # "Complex form detected or no fields found - cannot auto-fill"]_vars

C26_Witness ==
  /\ pc = "load"
  /\ response = HttpResponse(200, NullBody)
  /\ detectedFields = C2_FallbackList
  /\ isPending

\* C27: the busy flag is true exactly while an invocation is in flight; an
\* invocation starts only while the flag is false, and sets it; every way out
\* of the in-flight state clears it; so invocations never overlap.
C27_BusyFlagTracksInvocation ==
  [][/\ isPending' <=> pc' # "idle"
     /\ invCount' # invCount =>
          /\ ~isPending /\ pc = "idle"
          /\ isPending' /\ pc' # "idle"
          /\ invCount' = invCount + 1
     /\ (pc # "idle" /\ pc' = "idle") => (isPending /\ ~isPending')]_vars

C27_Witness ==
  /\ pc = "idle"
  /\ ~isPending
  /\ invCount = 2
  /\ variant = "inline"
  /\ lastError.kind = "InvalidPDFException"
  /\ processingResult = "incomplete"

C28_StartErrors ==
  {"Please create a signature first", "Please enter your Hugging Face API token first"}

\* C28: an invocation starts only with an uploaded PDF, a signature and (in
\* the processors that take one) a non-empty token; a click with one of them
\* missing shows the error and changes nothing else: no request, busy flag,
\* processingResult and download URL as before.
C28_StartsOnlyWithAllInputs ==
  [][/\ invCount' # invCount =>
          /\ uploadedFile # Null /\ FileType(uploadedFile) = "application/pdf"
          /\ signatureDataUrl # Null
          /\ variant # "simulated" => hfToken # NoToken
     /\ (pc = "idle" /\ pc' # "idle") => invCount' # invCount
     /\ (toast' # toast /\ toast' \in C28_StartErrors) =>
          /\ signatureDataUrl = Null \/ hfToken = NoToken
          /\ UNCHANGED <<props, uploadedFile, processingResult, downloadUrl,
                         isPending, pc, inv, invCount, run>>]_vars

C28_Witness ==
  /\ toast = "Please enter your Hugging Face API token first"
  /\ hfToken = NoToken
  /\ signatureDataUrl = ValidSignature
  /\ uploadedFile = "form.pdf"
  /\ pc = "idle"
  /\ ~isPending
  /\ invCount = 0
  /\ requests = <<>>
  /\ processingResult = Null

\* C29: a dropped PDF replaces uploadedFile and resets processingResult and
\* the download URL to null; any other drop changes none of the three;
\* uploadedFile is null or a PDF; a result or a URL appears only when an
\* invocation ends, and the URL is that of the file the invocation was
\* started on, which was the uploaded file at that time.
C29_UploadFrame ==
  [][/\ (uploadedFile' # uploadedFile \/ (toast' = "PDF uploaded" /\ toast' # toast)) =>
          /\ uploadedFile' \in PdfFiles
          /\ processingResult' = Null
          /\ downloadUrl' = Null
     /\ (toast' = "Please upload a valid PDF file" /\ toast' # toast) =>
          UNCHANGED <<uploadedFile, processingResult, downloadUrl>>
     /\ uploadedFile' = Null \/ FileType(uploadedFile') = "application/pdf"
     /\ (processingResult' # processingResult /\ processingResult' # Null) =>
          pc # "idle"
     /\ (downloadUrl' # downloadUrl /\ downloadUrl' # Null) =>
          (pc # "idle" /\ downloadUrl' = inv.file)
     /\ invCount' # invCount => inv'.file = uploadedFile]_vars

C29_Witness ==
  /\ uploadedFile = "locked.pdf"
  /\ toast = "PDF uploaded"
  /\ processingResult = Null
  /\ downloadUrl = Null
  /\ pc = "idle"
  /\ invCount = 1
  /\ inv.file = "form.pdf"
  /\ lastError = NoError
  /\ draws # <<>>

C30_ShortPin == Len(pin) < 4

\* C30: saveProfile with a PIN of at least 4 characters stores the current
\* formData and signature under that PIN and leaves the profiles of all other
\* PINs as they were; loadProfile with a PIN that has a profile sets formData
\* and the signature to exactly what that profile holds; save or load with a
\* shorter PIN, and load with a PIN that has no profile, change none of
\* formData, signature and store.
C30_ProfileRoundTrip ==
  [][/\ (saveProfile /\ ~C30_ShortPin /\ toast' = "Profile saved successfully!") =>
          /\ Parse(store'[ProfileKey(pin)]).formData = formData
          /\ Parse(store'[ProfileKey(pin)]).signatureDataUrl = signatureDataUrl
          /\ \A p \in Pins \ {pin} : store'[ProfileKey(p)] = store[ProfileKey(p)]
          /\ UNCHANGED <<formData, signatureDataUrl>>
     /\ (loadProfile /\ ~C30_ShortPin /\ store[ProfileKey(pin)] # NoItem) =>
          /\ formData' = Parse(store[ProfileKey(pin)]).formData
          /\ signatureDataUrl' = Parse(store[ProfileKey(pin)]).signatureDataUrl
          /\ UNCHANGED store
     /\ ((saveProfile \/ loadProfile) /\ C30_ShortPin) =>
          UNCHANGED <<formData, signatureDataUrl, store>>
     /\ (loadProfile /\ ~C30_ShortPin /\ store[ProfileKey(pin)] = NoItem) =>
          UNCHANGED <<formData, signatureDataUrl, store>>
     /\ \A p \in Pins :
          store'[ProfileKey(p)] # store[ProfileKey(p)] => (p = pin /\ ~C30_ShortPin)]_vars

C30_Witness ==
  /\ toast = "Profile loaded successfully!"
  /\ pin = <<"1", "2", "3", "4">>
  /\ formData = AnnRecord
  /\ signatureDataUrl = Null
  /\ store[ProfileKey(pin)] # NoItem
  /\ Parse(store[ProfileKey(pin)]).formData = AnnRecord
  /\ Parse(store[ProfileKey(pin)]).signatureDataUrl = Null
  /\ store[ProfileKey(<<"1", "2", "3", "4", "5">>)] =
       Stringify(Profile(JaneRecord, ValidSignature, 1))

====
